---- MODULE Spec2Model ----
(***************************************************************************)
(* Model of TwitterVideoUploaderService.uploadToTwitter and the methods it *)
(* drives (performUpload, uploadVideo, uploadImage, waitForMediaProcessing,*)
(* checkMediaStatus, createTweet).  The service is a single await chain:   *)
(* pc names the await the call is suspended at, and every action is the    *)
(* resumption of that await: it handles the outcome of the pending call    *)
(* and runs the code up to the next await (issuing the next outbound call) *)
(* or up to the return / throw of uploadToTwitter.                         *)
(***************************************************************************)
EXTENDS Integers, Sequences, FiniteSets, TLC

VARIABLES
    filePathOrUrl,      \* argument of uploadToTwitter
    mimeType,           \* options.mimeType (NoMimeType when absent)
    disk,               \* size of the file at filePathOrUrl, NoFile when fs.existsSync is false
    accessCredentials,  \* TRUE iff twitter.accessToken and twitter.accessTokenSecret are configured
    consumerCredentials,\* TRUE iff twitter.consumerKey and twitter.consumerSecret are configured
    tweetText,          \* options.tweetText (None when absent)
    replyToTweetId,     \* options.replyToTweetId (None when absent)
    pc,                 \* the await the call is suspended at
    retryCount,         \* uploadToTwitter: let retryCount
    isImageUpload,      \* performUpload: const isImageUpload
    mediaId,            \* uploadVideo / uploadImage / performUpload: mediaId
    i,                  \* uploadVideo: loop offset i
    segmentIndex,       \* uploadVideo: let segmentIndex
    attempts,           \* waitForMediaProcessing: let attempts
    elapsed,            \* waitForMediaProcessing: Date.now() - startTime, in ms
    mediaStatus,        \* waitForMediaProcessing: const mediaStatus (last STATUS response body)
    result,             \* outcome of uploadToTwitter: Pending, a returned value or a thrown error
    waitTime,           \* uploadToTwitter, catch block: const waitTime, in ms (0 outside the block)
    retryAfter,         \* retry-after header of the 429 response being handled, in s (NoSecs when absent)
    calls,              \* history: outbound API calls issued by the current performUpload
    initsIssued,        \* history: INIT requests issued so far (the server numbers its media ids)
    performUploadCalls, \* history: number of times performUpload was entered
    rateLimitHits,      \* history: number of 429 errors caught by uploadToTwitter
    thrown,             \* history: the errors performUpload has thrown, oldest first
    downloads,          \* history: number of calls of downloadVideoFromUrl
    request,            \* controller: the body and the uploaded file of the HTTP request
    uploadPath,         \* controller: let uploadPath (NoPath while undefined)
    tempFile,           \* TRUE iff the file the controller staged exists on disk
    unlinkAttempts,     \* history: number of fs.promises.unlink calls of the controller
    response,           \* the HTTP response of the controller (NoResponse until it answers)
    clock,              \* concurrent requests: Date.now(), in ms
    handlers,           \* concurrent requests: the position and locals of each running handler
    files               \* concurrent requests: the files in uploads/, as <<path, content>>

vars == <<filePathOrUrl, mimeType, disk, accessCredentials, consumerCredentials,
          tweetText, replyToTweetId, pc, retryCount,
          isImageUpload, mediaId, i, segmentIndex, attempts, elapsed,
          mediaStatus, result, waitTime, retryAfter, calls, initsIssued,
          performUploadCalls, rateLimitHits, thrown, downloads,
          request, uploadPath, tempFile, unlinkAttempts, response,
          clock, handlers, files>>

None == "none"
\* options.mimeType absent (a falsy value)
NoMimeType == <<"", "">>
\* processing_info.check_after_secs absent
NoSecs == -1
NoFile == -1
Pending == [kind |-> "pending"]
\* the controller's uploadPath while it is undefined
NoPath == [name |-> "", ext |-> "", remote |-> FALSE]
NoResponse == [status |-> 0, body |-> Pending]
\* no HTTP request: uploadToTwitter is called directly
\* the request carries no uploaded file
NoUpload == [originalname |-> "", ext |-> "", mimetype |-> NoMimeType, size |-> NoFile]
\* no HTTP request: uploadToTwitter is called directly
NoRequest == [videoUrl |-> NoPath, file |-> NoUpload,
              tweetText |-> None, replyToTweetId |-> None]

----------------------------------------------------------------------------
(* Bounds of the model *)

\* the largest file takes MaxChunks APPEND requests
MaxChunks == 3

\* calculateBackoffTime is evaluated for the retry counts 0..MaxRetryCount
MaxRetryCount == 20

\* Math.random() takes the values k / JitterSteps, k in 0..JitterSteps-1
JitterSteps == 4

\* concurrent requests: Date.now() runs over 0..MaxClock
MaxClock == 2

----------------------------------------------------------------------------
(* Program constants *)

MAX_RETRIES == 3
MAX_ATTEMPTS == 10
MAX_PROCESSING_TIME == 5 * 60 * 1000
chunkSize == 5 * 1024 * 1024
defaultCheckAfterSecs == 2
maxCheckAfterSecs == 30

imageExtensions == {".jpg", ".jpeg", ".png", ".gif", ".bmp", ".webp"}

\* controller: const allowedMimeTypes
allowedMimeTypes ==
    { <<"video", "mp4">>, <<"video", "quicktime">>, <<"image", "jpeg">>,
      <<"image", "png">>, <<"image", "gif">> }

\* HttpStatus.BAD_REQUEST, HttpStatus.INTERNAL_SERVER_ERROR and the status
\* NestJS gives a POST handler that returns
BAD_REQUEST == 400
INTERNAL_SERVER_ERROR == 500
CREATED == 201

\* calculateBackoffTime: const baseDelay, const maxDelay (ms)
baseDelay == 1000
maxDelay == 60000

\* performUpload: the default of options.tweetText
defaultTweetText == "Uploaded a new media! #MediaUpload"

----------------------------------------------------------------------------
(* Inputs and environment *)

\* A path is a record: its base name, its extension as path.extname gives it
\* and whether it is a remote URL.  The empty string is EmptyPath.
EmptyPath == [name |-> "", ext |-> "", remote |-> FALSE]
Paths ==
    { EmptyPath,
      [name |-> "/uploads/1-clip", ext |-> ".mp4", remote |-> FALSE],
      [name |-> "/uploads/1-pic", ext |-> ".JPG", remote |-> FALSE],
      [name |-> "https://host/clip", ext |-> ".mp4", remote |-> TRUE] }

\* A MIME type is <<type, subtype>>; options.mimeType may be absent.
MimeTypes == { NoMimeType, <<"video", "mp4">>, <<"image", "png">> }

\* Sizes at the chunk boundaries: 0, 1, C, 2C, ..., and one byte past the
\* last boundary (a short last chunk).
FileSizes ==
    { 0, 1 } \cup { k * chunkSize : k \in 1..(MaxChunks - 1) }
             \cup { (MaxChunks - 1) * chunkSize + 1 }

\* Time an HTTP request takes, in ms (the global axios has no timeout).
Latencies == { 0, 290000 }

\* processing_info.check_after_secs of a STATUS response (NoSecs when absent).
CheckAfterSecs == { NoSecs, 0, 4, 60 }

\* options.tweetText and options.replyToTweetId: absent, or a string
TweetTexts == { None, "Hello" }
ReplyToTweetIds == { None, "", "1234" }

\* retry-after header of a 429 response, in seconds (NoSecs when absent)
RetryAfterHints == { NoSecs, 7 }

\* the values of Math.random(), as numerators over JitterSteps
Randoms == 0..(JitterSteps - 1)

ProcessingStates == { "pending", "in_progress", "succeeded", "failed" }

\* Body of a STATUS response: processing_info may be absent altogether.
NoProcessingInfo == [state |-> None, check_after_secs |-> NoSecs]
StatusBodies ==
    { NoProcessingInfo } \cup
    [state : ProcessingStates, check_after_secs : CheckAfterSecs]

----------------------------------------------------------------------------
(* Errors *)

\* An AxiosError carries the response status (0: no response, a network error).
AxiosError(status) == [kind |-> "error", axios |-> TRUE, status |-> status, message |-> "Request failed"]
PlainError(message) == [kind |-> "error", axios |-> FALSE, status |-> 0, message |-> message]

HttpErrors == { AxiosError(429), AxiosError(500), AxiosError(0) }

PathRequiredError == PlainError("File path or URL is required")
FileNotFoundError == PlainError("File not found")
MissingCredentialError == PlainError("Missing credential")
TimeLimitError == PlainError("Media processing exceeded maximum time limit")
MaxAttemptsError == PlainError("Media processing failed after maximum attempts")
MaxRetriesError == PlainError("Max retries exceeded during Twitter upload")

Returned(id) == [kind |-> "returned", id |-> id]

\* controller: new HttpException(message, status)
HttpException(message, status) == [status |-> status, body |-> PlainError(message)]
NoSourceError == PlainError("Either video URL or file must be provided")
UnsupportedTypeError == PlainError("Unsupported file type")
StagingError == PlainError("EACCES: permission denied")
UnlinkError == PlainError("EPERM: operation not permitted")

----------------------------------------------------------------------------
(* Pure helpers *)

Min(a, b) == IF a < b THEN a ELSE b

\* String.prototype.toLowerCase on the extensions the model uses.
ToLowerCase(ext) ==
    CASE ext = ".JPG" -> ".jpg"
      [] ext = ".PNG" -> ".png"
      [] OTHER -> ext

isImageFile(filePath) == ToLowerCase(filePath.ext) \in imageExtensions

\* performUpload: options.mimeType ? options.mimeType.startsWith('image/')
\*                                 : this.isImageFile(filePathOrUrl)
IsImageUpload(path, mime) ==
    IF mime # NoMimeType THEN mime[1] = "image" ELSE isImageFile(path)

\* mutants of the retry loop's condition: one attempt too many, one too few
RetryLoopCondition_Inclusive(rc) == rc <= MAX_RETRIES
RetryLoopCondition_Short(rc) == rc < MAX_RETRIES - 1

\* uploadToTwitter: while (retryCount < MAX_RETRIES)
RetryLoopCondition(rc) == rc < MAX_RETRIES

\* mutant: every axios error is taken for a rate limit
IsRateLimit_AnyAxiosError(e) == e.axios

\* uploadToTwitter: axios.isAxiosError(error) && error.response?.status === 429
IsRateLimit(e) == e.axios /\ e.status = 429

\* JavaScript truthiness of an optional string
Truthy(str) == str # None /\ str # ""

\* mutant: a credential that is not configured passes
validateCredential_Skipped(configured) == TRUE

\* validateCredential: throws 'Missing credential' unless the value is set
validateCredential(configured) == configured

\* mutant: the jitter is a full delay instead of half of one
calculateBackoffTime_FullJitter(rc, random) ==
    LET delay == Min(maxDelay, baseDelay * 2 ^ Min(rc, 5))
    IN delay + (random * delay) \div JitterSteps

\* calculateBackoffTime, with Math.random() = random / JitterSteps; the
\* result is in whole ms (the fraction of a ms of the jitter is dropped)
calculateBackoffTime(rc, random) ==
    LET safeRetryCount == Min(rc, 5)
        delay == Min(maxDelay, baseDelay * 2 ^ safeRetryCount)
        jitter == (random * delay) \div (2 * JitterSteps)
    IN delay + jitter

\* uploadToTwitter, catch block: const waitTime =
\* this.calculateBackoffTime(retryCount); the response's retry-after header
\* (hint) is not read
RateLimitWait(rc, hint, random) == calculateBackoffTime(rc, random)

\* mutant: the loop also runs when the offset has reached the end of the file
ChunkLoopCondition_Inclusive(offset, fileSize) == offset <= fileSize

\* uploadVideo: for (let i = 0; i < fileSize; i += chunkSize)
ChunkLoopCondition(offset, fileSize) == offset < fileSize

\* mutant: the segment index is not advanced
NextSegmentIndex_Stuck(seg) == seg

\* uploadVideo: segmentIndex++
NextSegmentIndex(seg) == seg + 1

\* mutant: images wait for processing as videos do
SkipsProcessing_Never(image) == FALSE

\* performUpload: only the else branch (a video) calls waitForMediaProcessing
SkipsProcessing(image) == image

\* mutant: one poll too many
PollLoopCondition_Inclusive(n) == n <= MAX_ATTEMPTS

\* waitForMediaProcessing: while (attempts < MAX_ATTEMPTS)
PollLoopCondition(n) == n < MAX_ATTEMPTS

\* mutant: the terminal state is looked for under another name
ProcessingSucceeded_Completed(body) == body.state = "completed"

\* mutant: a response without processing_info is taken for a success
ProcessingSucceeded_OrNoInfo(body) == body.state \in {"succeeded", None}

\* waitForMediaProcessing: mediaStatus.processing_info?.state === 'succeeded'
ProcessingSucceeded(body) == body.state = "succeeded"

\* mutant: the limit is taken in the wrong unit (five hours)
TimeLimitExceeded_Hours(ms) == ms > 60 * MAX_PROCESSING_TIME

\* waitForMediaProcessing: Date.now() - startTime > MAX_PROCESSING_TIME
TimeLimitExceeded(ms) == ms > MAX_PROCESSING_TIME

\* mutant: the server's suggestion is not capped
WaitTime_Uncapped(body) ==
    IF body.check_after_secs = NoSecs \/ body.check_after_secs = 0
    THEN defaultCheckAfterSecs
    ELSE body.check_after_secs

\* waitForMediaProcessing: Math.min(check_after_secs || 2, 30), in seconds
WaitTime(body) ==
    Min(IF body.check_after_secs = NoSecs \/ body.check_after_secs = 0
        THEN defaultCheckAfterSecs
        ELSE body.check_after_secs,
        maxCheckAfterSecs)

----------------------------------------------------------------------------
(* Outbound calls *)

\* the client every request is sent with: await axios.post(...) /
\* axios.get(...), the global axios, which has no interceptor and no
\* timeout; this.axiosInstance, which has both, sends nothing
HttpClient == "axios"

InitCall(totalBytes) ==
    [command |-> "INIT", media_id |-> 0, segment_index |-> 0,
     total_bytes |-> totalBytes, from |-> 0, to |-> 0, via |-> HttpClient]

\* APPEND of the bytes [from, to) of the file
AppendCall(id, seg, from, to) ==
    [command |-> "APPEND", media_id |-> id, segment_index |-> seg,
     total_bytes |-> 0, from |-> from, to |-> to, via |-> HttpClient]

FinalizeCall(id) ==
    [command |-> "FINALIZE", media_id |-> id, segment_index |-> 0,
     total_bytes |-> 0, from |-> 0, to |-> 0, via |-> HttpClient]

StatusCall(id) ==
    [command |-> "STATUS", media_id |-> id, segment_index |-> 0,
     total_bytes |-> 0, from |-> 0, to |-> 0, via |-> HttpClient]

\* mutant: the reply field is always there
tweetPayload_AlwaysReply(id, text, replyTo) ==
    [text |-> text, media |-> [media_ids |-> <<id>>],
     reply |-> [in_reply_to_tweet_id |-> replyTo]]

\* createTweet: const tweetPayload = { text, media: { media_ids: [mediaId] } };
\* if (replyToTweetId) tweetPayload.reply = { in_reply_to_tweet_id }
tweetPayload(id, text, replyTo) ==
    IF Truthy(replyTo)
    THEN [text |-> text, media |-> [media_ids |-> <<id>>],
          reply |-> [in_reply_to_tweet_id |-> replyTo]]
    ELSE [text |-> text, media |-> [media_ids |-> <<id>>]]

\* performUpload: const { tweetText = '...', replyToTweetId } = options
TweetTextOrDefault(text) == IF text = None THEN defaultTweetText ELSE text

TweetCall(id) ==
    [command |-> "TWEET", media_id |-> id, segment_index |-> 0,
     total_bytes |-> 0, from |-> 0, to |-> 0, via |-> HttpClient,
     payload |-> tweetPayload(id, TweetTextOrDefault(tweetText), replyToTweetId)]

\* body of the response to a FINALIZE request: the API answers with the
\* media it finalized
FinalizeBody(call) == [media_id_string |-> call.media_id]

\* mutant: the id is read from a field the FINALIZE response does not have
UploadedMediaId_Undefined(image, initId, finalizeBody) ==
    IF image THEN initId ELSE 0

\* performUpload: mediaId = await this.uploadImage(...), which returns the
\* id of its INIT response; for a video mediaId =
\* uploadResponse.media_id_string, read from the FINALIZE response
UploadedMediaId(image, initId, finalizeBody) ==
    IF image THEN initId ELSE finalizeBody.media_id_string

\* mutant: the end of the slice is taken for a length
VideoChunk_LengthAsEnd(id, seg, offset, fileSize) ==
    AppendCall(id, seg, offset, Min(chunkSize, fileSize))

\* uploadVideo: fileData.slice(i, i + chunkSize)
VideoChunk(id, seg, offset, fileSize) ==
    AppendCall(id, seg, offset, Min(offset + chunkSize, fileSize))

\* uploadImage: the whole file in one APPEND with segment_index 0
ImageChunk(id, fileSize) == AppendCall(id, 0, 0, fileSize)

----------------------------------------------------------------------------
(* Control transfer *)

\* The locals of performUpload and its callees; they are reset when the
\* frame is entered and when it is left.
ResetLocals ==
    /\ mediaId' = 0
    /\ i' = 0
    /\ segmentIndex' = 0
    /\ attempts' = 0
    /\ elapsed' = 0
    /\ mediaStatus' = NoProcessingInfo

\* outside the catch block of uploadToTwitter its locals do not exist
NoBackoff ==
    /\ waitTime' = 0
    /\ retryAfter' = NoSecs

\* mutant: the catch block swallows the error and reports the uploaded media
Catch_ReportsMedia(e) ==
    /\ pc' = "done"
    /\ result' = Returned(mediaId)
    /\ rateLimitHits' = rateLimitHits
    /\ NoBackoff

\* uploadToTwitter: catch (error) { ... }; a 429 response may carry a
\* retry-after header, and the delay has a random jitter
Catch(e) ==
    IF IsRateLimit(e)
    THEN /\ pc' = "backoff"
         /\ rateLimitHits' = rateLimitHits + 1
         /\ result' = result
         /\ \E hint \in RetryAfterHints, random \in Randoms :
              /\ retryAfter' = hint
              /\ waitTime' = RateLimitWait(retryCount, hint, random)
    ELSE /\ pc' = "done"
         /\ result' = e
         /\ rateLimitHits' = rateLimitHits
         /\ NoBackoff

\* performUpload: catch (error) { log; throw error }
Throw(log, e) ==
    /\ calls' = log
    /\ thrown' = Append(thrown, e)
    /\ ResetLocals
    /\ Catch(e)

\* an outbound request is sent and the call suspends at its await
Issue(log, call, at) ==
    /\ calls' = Append(log, call)
    /\ pc' = at
    /\ NoBackoff
    /\ UNCHANGED <<result, rateLimitHits, thrown>>

\* checkMediaStatus / createTweet: validateCredential for the access token
\* and its secret, then the signed request
SignedIssue(log, call, at, n, ms, body) ==
    IF validateCredential(accessCredentials)
    THEN /\ Issue(log, call, at)
         /\ attempts' = n
         /\ elapsed' = ms
         /\ mediaStatus' = body
         /\ mediaId' = call.media_id    \* performUpload: the mediaId it passes on
         /\ UNCHANGED <<i, segmentIndex>>
    ELSE Throw(log, MissingCredentialError)

\* uploadToTwitter: throw new Error('Max retries exceeded during Twitter upload')
GiveUp ==
    /\ pc' = "done"
    /\ result' = MaxRetriesError
    /\ ResetLocals
    /\ NoBackoff
    /\ UNCHANGED <<isImageUpload, calls, initsIssued, performUploadCalls,
                   rateLimitHits, thrown>>

\* performUpload up to its first await: classify the input, then uploadImage
\* or uploadVideo up to the INIT request (existsSync, readFileSync, statSync,
\* validateCredential, axios.post)
BeginAttempt ==
    /\ performUploadCalls' = performUploadCalls + 1
    /\ isImageUpload' = IsImageUpload(filePathOrUrl, mimeType)
    /\ IF disk = NoFile
       THEN Throw(<<>>, FileNotFoundError) /\ UNCHANGED initsIssued
       ELSE IF ~validateCredential(accessCredentials)
       THEN Throw(<<>>, MissingCredentialError) /\ UNCHANGED initsIssued
       ELSE /\ Issue(<<>>, InitCall(disk), "INIT")
            /\ initsIssued' = initsIssued + 1
            /\ ResetLocals

\* mutant: a retry sends the failed request again, within the old session
LoopHead_Resume(rc) ==
    IF ~RetryLoopCondition(rc) THEN GiveUp
    ELSE IF rc = 0 \/ calls = <<>> THEN BeginAttempt
    ELSE /\ pc' = calls[Len(calls)].command
         /\ performUploadCalls' = performUploadCalls + 1
         /\ NoBackoff
         /\ UNCHANGED <<isImageUpload, mediaId, i, segmentIndex, attempts, elapsed,
                        mediaStatus, result, calls, initsIssued, rateLimitHits, thrown>>

\* uploadToTwitter: the head of the retry loop
LoopHead(rc) ==
    IF RetryLoopCondition(rc) THEN BeginAttempt ELSE GiveUp

----------------------------------------------------------------------------
(* Initial states: the call's arguments and its environment *)

\* the requests that run concurrently in one process
Handlers == { 1, 2 }

\* uploadPath of a handler while it is undefined
NoStagedPath == [now |-> -1, originalname |-> ""]

\* a single request: no others run beside it
NoStaging ==
    /\ clock = 0
    /\ handlers = [h \in Handlers |->
                     [pc |-> "idle", originalname |-> "", uploadPath |-> NoStagedPath]]
    /\ files = {}

\* the locals and the histories of a call that has not begun
Fresh ==
    /\ waitTime = 0
    /\ retryAfter = NoSecs
    /\ downloads = 0
    /\ uploadPath = NoPath
    /\ tempFile = FALSE
    /\ unlinkAttempts = 0
    /\ response = NoResponse
    /\ isImageUpload = FALSE
    /\ mediaId = 0
    /\ i = 0
    /\ segmentIndex = 0
    /\ attempts = 0
    /\ elapsed = 0
    /\ mediaStatus = NoProcessingInfo
    /\ result = Pending
    /\ calls = <<>>
    /\ initsIssued = 0
    /\ performUploadCalls = 0
    /\ rateLimitHits = 0
    /\ thrown = <<>>

\* uploadToTwitter is called directly, with its options reduced to mimeType
Init ==
    /\ filePathOrUrl \in Paths
    /\ mimeType \in MimeTypes
    /\ disk \in (IF filePathOrUrl.remote \/ filePathOrUrl = EmptyPath
                 THEN {NoFile} ELSE FileSizes \cup {NoFile})
    /\ accessCredentials \in BOOLEAN
    /\ consumerCredentials \in BOOLEAN
    /\ tweetText = None
    /\ replyToTweetId = None
    /\ request = NoRequest
    /\ pc = "start"
    /\ retryCount = 0
    /\ Fresh
    /\ NoStaging

----------------------------------------------------------------------------
(* Actions *)

inputs == <<filePathOrUrl, mimeType, disk, accessCredentials, consumerCredentials,
            tweetText, replyToTweetId>>
controller == <<request, uploadPath, tempFile, unlinkAttempts, response>>
staging == <<clock, handlers, files>>

\* uploadToTwitter is called: input validation, then the first attempt.  The
\* service exists only if its constructor found the consumer key and secret;
\* without them no call of the service gets any further than this.
Start ==
    /\ pc = "start"
    /\ IF ~validateCredential(consumerCredentials) \/ filePathOrUrl = EmptyPath
       THEN /\ pc' = "done"
            /\ result' = IF ~validateCredential(consumerCredentials)
                          THEN MissingCredentialError ELSE PathRequiredError
            /\ NoBackoff
            /\ UNCHANGED <<retryCount, isImageUpload, mediaId, i, segmentIndex,
                           attempts, elapsed, mediaStatus, calls, initsIssued,
                           performUploadCalls, rateLimitHits, thrown>>
       ELSE /\ retryCount' = 0
            /\ LoopHead(0)
    /\ UNCHANGED <<inputs, controller, staging, downloads>>

\* the INIT request completes
InitResponse ==
    /\ pc = "INIT"
    /\ \/ \E e \in HttpErrors : Throw(calls, e)
       \/ /\ mediaId' = initsIssued     \* initResponse.data.media_id_string
          /\ i' = 0
          /\ segmentIndex' = 0
          /\ UNCHANGED <<attempts, elapsed, mediaStatus>>
          /\ IF isImageUpload
             THEN Issue(calls, ImageChunk(mediaId', disk), "APPEND")
             ELSE IF ChunkLoopCondition(0, disk)
             THEN Issue(calls, VideoChunk(mediaId', 0, 0, disk), "APPEND")
             ELSE Issue(calls, FinalizeCall(mediaId'), "FINALIZE")
    /\ UNCHANGED <<inputs, controller, staging, downloads, retryCount, isImageUpload, initsIssued, performUploadCalls>>

\* an APPEND request completes
AppendResponse ==
    /\ pc = "APPEND"
    /\ \/ \E e \in HttpErrors : Throw(calls, e)
       \/ /\ UNCHANGED <<mediaId, attempts, elapsed, mediaStatus>>
          /\ IF isImageUpload
             THEN /\ UNCHANGED <<i, segmentIndex>>
                  /\ Issue(calls, FinalizeCall(mediaId), "FINALIZE")
             ELSE /\ segmentIndex' = NextSegmentIndex(segmentIndex)
                  /\ i' = i + chunkSize
                  /\ IF ChunkLoopCondition(i', disk)
                     THEN Issue(calls, VideoChunk(mediaId, segmentIndex', i', disk), "APPEND")
                     ELSE Issue(calls, FinalizeCall(mediaId), "FINALIZE")
    /\ UNCHANGED <<inputs, controller, staging, downloads, retryCount, isImageUpload, initsIssued, performUploadCalls>>

\* the FINALIZE request completes: uploadImage / uploadVideo return; for a
\* video waitForMediaProcessing starts (startTime = Date.now(), attempts = 0)
\* and sends its first STATUS request; for an image createTweet is called
FinalizeResponse ==
    /\ pc = "FINALIZE"
    /\ \/ \E e \in HttpErrors : Throw(calls, e)
       \/ LET id == UploadedMediaId(isImageUpload, mediaId,
                                     FinalizeBody(calls[Len(calls)]))
          IN IF SkipsProcessing(isImageUpload)
             THEN SignedIssue(calls, TweetCall(id), "TWEET", 0, 0, NoProcessingInfo)
             ELSE IF PollLoopCondition(0)
             THEN SignedIssue(calls, StatusCall(id), "STATUS", 0, 0, NoProcessingInfo)
             ELSE Throw(calls, MaxAttemptsError)
    /\ UNCHANGED <<inputs, controller, staging, downloads, retryCount, isImageUpload, initsIssued, performUploadCalls>>

\* a STATUS request completes after some latency
StatusResponse ==
    /\ pc = "STATUS"
    /\ \/ \E e \in HttpErrors : Throw(calls, e)
       \/ \E latency \in Latencies, body \in StatusBodies :
            IF ProcessingSucceeded(body)
            THEN SignedIssue(calls, TweetCall(mediaId), "TWEET", attempts, 0, body)
            ELSE IF TimeLimitExceeded(elapsed + latency)
            THEN Throw(calls, TimeLimitError)
            ELSE /\ pc' = "pollSleep"
                 /\ NoBackoff
                 /\ mediaStatus' = body
                 /\ elapsed' = elapsed + latency
                 /\ UNCHANGED <<mediaId, i, segmentIndex, attempts, result,
                                calls, rateLimitHits, thrown>>
    /\ UNCHANGED <<inputs, controller, staging, downloads, retryCount, isImageUpload, initsIssued, performUploadCalls>>

\* the sleep between two polls ends: attempts++, back to the loop head
PollSleepDone ==
    /\ pc = "pollSleep"
    /\ IF PollLoopCondition(attempts + 1)
       THEN SignedIssue(calls, StatusCall(mediaId), "STATUS", attempts + 1,
                        elapsed + WaitTime(mediaStatus) * 1000, NoProcessingInfo)
       ELSE Throw(calls, MaxAttemptsError)
    /\ UNCHANGED <<inputs, controller, staging, downloads, retryCount, isImageUpload, initsIssued, performUploadCalls>>

\* the post-creation request completes
TweetResponse ==
    /\ pc = "TWEET"
    /\ \/ \E e \in HttpErrors : Throw(calls, e)
       \/ /\ pc' = "done"
          /\ result' = Returned(mediaId)
          /\ NoBackoff
          /\ UNCHANGED <<mediaId, i, segmentIndex, attempts, elapsed, mediaStatus,
                         calls, rateLimitHits, thrown>>
    /\ UNCHANGED <<inputs, controller, staging, downloads, retryCount, isImageUpload, initsIssued, performUploadCalls>>

\* the backoff delay after a rate-limit error ends: retryCount++, continue
DelayDone ==
    /\ pc = "backoff"
    /\ retryCount' = retryCount + 1
    /\ LoopHead(retryCount + 1)
    /\ UNCHANGED <<inputs, controller, staging, downloads>>

----------------------------------------------------------------------------
(* The controller: POST twitter-video-uploader/upload *)

\* mutant: the request is not validated
NoSourceProvided_Never(videoUrl, file) == FALSE

\* controller: if (!videoUrl && !file)
NoSourceProvided(videoUrl, file) == videoUrl = NoPath /\ file = NoUpload

\* controller: path.join(uploadsDir, `${Date.now()}-${file.originalname}`)
StagedPath(file) ==
    [name |-> "/uploads/1-" \o file.originalname, ext |-> file.ext, remote |-> FALSE]

\* controller: catch (error) { throw new HttpException(error.message,
\* HttpStatus.INTERNAL_SERVER_ERROR) }: whatever the try block threw, an
\* HttpException of its own included, is answered with status 500
ControllerCatch(error) == HttpException(error.message, INTERNAL_SERVER_ERROR)

\* the handler answers without having called the service
Reject(answer) ==
    /\ response' = answer
    /\ pc' = "responded"
    /\ UNCHANGED <<inputs, uploadPath, tempFile>>

\* the request arrives: validation, staging of the uploaded file (mkdir,
\* writeFile), then the call of twitterService.uploadToTwitter
ControllerReceive ==
    /\ pc = "request"
    /\ IF NoSourceProvided(request.videoUrl, request.file)
       THEN Reject(HttpException(NoSourceError.message, BAD_REQUEST))
       ELSE IF request.file # NoUpload /\ request.file.mimetype \notin allowedMimeTypes
       THEN Reject(ControllerCatch(HttpException(UnsupportedTypeError.message, BAD_REQUEST).body))
       ELSE \/ /\ request.file # NoUpload
               /\ Reject(ControllerCatch(StagingError))
            \/ /\ uploadPath' = IF request.file # NoUpload
                                THEN StagedPath(request.file) ELSE NoPath
               /\ tempFile' = (request.file # NoUpload)
               /\ filePathOrUrl' = IF uploadPath' # NoPath
                                   THEN uploadPath' ELSE request.videoUrl
               /\ mimeType' = request.file.mimetype
               /\ disk' = request.file.size
               /\ tweetText' = request.tweetText
               /\ replyToTweetId' = request.replyToTweetId
               /\ pc' = "start"
               /\ UNCHANGED <<accessCredentials, consumerCredentials, response>>
    /\ UNCHANGED <<retryCount, isImageUpload, mediaId, i, segmentIndex, attempts,
                   elapsed, mediaStatus, result, waitTime, retryAfter, calls,
                   initsIssued, performUploadCalls, rateLimitHits, thrown,
                   downloads, request, unlinkAttempts, staging>>

\* twitterService.uploadToTwitter has settled: on a return the staged file
\* is unlinked and the result is answered; a throw, of the service or of
\* unlink, goes to the catch block
ControllerResume ==
    /\ pc = "done"
    /\ pc' = "responded"
    /\ IF result.kind = "returned"
       THEN IF uploadPath # NoPath
            THEN /\ unlinkAttempts' = unlinkAttempts + 1
                 /\ \/ /\ tempFile' = FALSE
                       /\ response' = [status |-> CREATED, body |-> result]
                    \/ /\ tempFile' = tempFile
                       /\ response' = ControllerCatch(UnlinkError)
            ELSE /\ response' = [status |-> CREATED, body |-> result]
                 /\ UNCHANGED <<tempFile, unlinkAttempts>>
       ELSE /\ response' = ControllerCatch(result)
            /\ UNCHANGED <<tempFile, unlinkAttempts>>
    /\ UNCHANGED <<inputs, retryCount, isImageUpload, mediaId, i, segmentIndex,
                   attempts, elapsed, mediaStatus, result, waitTime, retryAfter,
                   calls, initsIssued, performUploadCalls, rateLimitHits, thrown,
                   downloads, request, uploadPath, staging>>

Next ==
    \/ Start
    \/ InitResponse
    \/ AppendResponse
    \/ FinalizeResponse
    \/ StatusResponse
    \/ PollSleepDone
    \/ TweetResponse
    \/ DelayDone

Spec == Init /\ [][Next]_vars

----------------------------------------------------------------------------
(* The service behind its controller *)

\* sizes of an uploaded file: one chunk, and two chunks with a short last one
UploadSizes == { 1, chunkSize + 1 }

\* the uploaded files: a video, an image and a type that is not allowed
Uploads ==
    { [originalname |-> "clip", ext |-> ".mp4", mimetype |-> <<"video", "mp4">>, size |-> n] :
        n \in UploadSizes }
    \cup { [originalname |-> "pic", ext |-> ".png", mimetype |-> <<"image", "png">>, size |-> 1],
           [originalname |-> "doc", ext |-> ".pdf", mimetype |-> <<"application", "pdf">>, size |-> 1] }

RemoteUrl == [name |-> "https://host/clip", ext |-> ".mp4", remote |-> TRUE]

Requests ==
    [videoUrl : {NoPath, RemoteUrl}, file : Uploads \cup {NoUpload},
     tweetText : TweetTexts, replyToTweetId : ReplyToTweetIds]

\* a request arrives at the controller of a running application (the
\* service was constructed: the consumer key and secret are configured)
InitController ==
    /\ request \in Requests
    /\ filePathOrUrl = EmptyPath
    /\ mimeType = NoMimeType
    /\ disk = NoFile
    /\ accessCredentials \in BOOLEAN
    /\ consumerCredentials = TRUE
    /\ tweetText = None
    /\ replyToTweetId = None
    /\ pc = "request"
    /\ retryCount = 0
    /\ Fresh
    /\ NoStaging

NextController ==
    \/ ControllerReceive
    \/ Start
    \/ InitResponse
    \/ AppendResponse
    \/ FinalizeResponse
    \/ StatusResponse
    \/ PollSleepDone
    \/ TweetResponse
    \/ DelayDone
    \/ ControllerResume

SpecController == InitController /\ [][NextController]_vars

----------------------------------------------------------------------------
(* calculateBackoffTime on its own *)

InitBackoff ==
    /\ filePathOrUrl = EmptyPath
    /\ mimeType = NoMimeType
    /\ disk = NoFile
    /\ accessCredentials = TRUE
    /\ consumerCredentials = TRUE
    /\ tweetText = None
    /\ replyToTweetId = None
    /\ request = NoRequest
    /\ pc = "calculate"
    /\ retryCount \in 0..MaxRetryCount
    /\ Fresh
    /\ NoStaging

\* calculateBackoffTime(retryCount) is evaluated
CalculateBackoff ==
    /\ pc = "calculate"
    /\ pc' = "calculated"
    /\ \E random \in Randoms : waitTime' = calculateBackoffTime(retryCount, random)
    /\ UNCHANGED <<inputs, controller, staging, downloads, retryCount, isImageUpload,
                   mediaId, i, segmentIndex, attempts, elapsed, mediaStatus,
                   result, retryAfter, calls, initsIssued, performUploadCalls,
                   rateLimitHits, thrown>>

NextBackoff == CalculateBackoff

SpecBackoff == InitBackoff /\ [][NextBackoff]_vars

----------------------------------------------------------------------------
(* Requests that run concurrently: the staging of their files.  Each handler
   is the controller's await chain (mkdir, writeFile, uploadToTwitter,
   unlink); the handlers interleave at their awaits and share Date.now() and
   the uploads directory. *)

\* file.originalname of the uploads
OriginalNames == { "clip.mp4", "pic.png" }

\* controller: path.join(uploadsDir, `${Date.now()}-${file.originalname}`)
UploadPathAt(now, originalname) == [now |-> now, originalname |-> originalname]

InitStaging ==
    /\ filePathOrUrl = EmptyPath
    /\ mimeType = NoMimeType
    /\ disk = NoFile
    /\ accessCredentials = TRUE
    /\ consumerCredentials = TRUE
    /\ tweetText = None
    /\ replyToTweetId = None
    /\ request = NoRequest
    /\ pc = "concurrent"
    /\ retryCount = 0
    /\ Fresh
    /\ clock = 0
    /\ handlers \in [Handlers ->
                      [pc : {"request"}, originalname : OriginalNames,
                       uploadPath : {NoStagedPath}]]
    /\ files = {}

NotStaging ==
    UNCHANGED <<inputs, controller, downloads, pc, retryCount, isImageUpload,
                mediaId, i, segmentIndex, attempts, elapsed, mediaStatus,
                result, waitTime, retryAfter, calls, initsIssued,
                performUploadCalls, rateLimitHits, thrown>>

\* handler h moves to the await at, with its uploadPath
Await(h, at, path) ==
    handlers' = [handlers EXCEPT ![h].pc = at, ![h].uploadPath = path]

\* the request passes the validation: await fs.promises.mkdir
HandlerReceive(h) ==
    /\ handlers[h].pc = "request"
    /\ Await(h, "mkdir", NoStagedPath)
    /\ UNCHANGED <<clock, files>>
    /\ NotStaging

\* mkdir resolves: uploadPath is named after Date.now(); await writeFile
MkdirDone(h) ==
    /\ handlers[h].pc = "mkdir"
    /\ Await(h, "writeFile", UploadPathAt(clock, handlers[h].originalname))
    /\ UNCHANGED <<clock, files>>
    /\ NotStaging

\* writeFile resolves: the file at uploadPath holds this request's bytes
\* (whatever was there is overwritten); await twitterService.uploadToTwitter
WriteFileDone(h) ==
    /\ handlers[h].pc = "writeFile"
    /\ files' = { f \in files : f[1] # handlers[h].uploadPath }
                   \cup { <<handlers[h].uploadPath, h>> }
    /\ Await(h, "uploadToTwitter", handlers[h].uploadPath)
    /\ UNCHANGED clock
    /\ NotStaging

\* uploadToTwitter returns: await fs.promises.unlink(uploadPath); or it
\* throws, and the handler answers from its catch block
UploadSettled(h) ==
    /\ handlers[h].pc = "uploadToTwitter"
    /\ \/ Await(h, "unlink", handlers[h].uploadPath)
       \/ Await(h, "responded", handlers[h].uploadPath)
    /\ UNCHANGED <<clock, files>>
    /\ NotStaging

\* unlink settles (it rejects when the file is gone): the handler answers
UnlinkDone(h) ==
    /\ handlers[h].pc = "unlink"
    /\ files' = { f \in files : f[1] # handlers[h].uploadPath }
    /\ Await(h, "responded", handlers[h].uploadPath)
    /\ UNCHANGED clock
    /\ NotStaging

\* a millisecond passes
Tick ==
    /\ clock < MaxClock
    /\ clock' = clock + 1
    /\ UNCHANGED <<handlers, files>>
    /\ NotStaging

NextStaging ==
    \/ \E h \in Handlers :
          \/ HandlerReceive(h)
          \/ MkdirDone(h)
          \/ WriteFileDone(h)
          \/ UploadSettled(h)
          \/ UnlinkDone(h)
    \/ Tick

SpecStaging == InitStaging /\ [][NextStaging]_vars

----------------------------------------------------------------------------
(* Every pending request and every sleep of the service ends *)

FairSpec == Spec /\ WF_vars(Next)

----------------------------------------------------------------------------
(* Observations on the call log *)

Positions(log, cmd) == { k \in 1..Len(log) : log[k].command = cmd }
Count(log, cmd) == Cardinality(Positions(log, cmd))
Appends(log) == SelectSeq(log, LAMBDA c : c.command = "APPEND")

\* place of a command in the protocol
Rank(cmd) ==
    CASE cmd = "INIT" -> 1
      [] cmd = "APPEND" -> 2
      [] cmd = "FINALIZE" -> 3
      [] cmd = "STATUS" -> 4
      [] cmd = "TWEET" -> 5

\* the bytes [0, n) of the file are covered, in order, by the APPENDs of log
RECURSIVE CoveredUpTo(_)
CoveredUpTo(chunks) ==
    IF chunks = <<>> THEN 0
    ELSE LET prefix == CoveredUpTo(SubSeq(chunks, 1, Len(chunks) - 1))
             last == chunks[Len(chunks)]
         IN IF prefix >= 0 /\ last.from = prefix /\ last.to >= last.from
            THEN last.to ELSE -1

CeilDiv(a, b) == (a + b - 1) \div b

----------------------------------------------------------------------------
(* C1 *)

\* C1: within one attempt the outbound calls are ordered INIT, APPEND...,
\* FINALIZE, STATUS..., post creation: the first call is the only INIT,
\* FINALIZE is issued once and only when the APPENDs before it cover the
\* whole file, STATUS and the post creation come only after FINALIZE, the
\* post creation is the last call; an image attempt issues no STATUS and
\* exactly one APPEND before its FINALIZE.
C1_CallOrder ==
    /\ calls # <<>> => calls[1].command = "INIT"
    /\ Count(calls, "INIT") <= 1
    /\ Count(calls, "FINALIZE") <= 1
    /\ Count(calls, "TWEET") <= 1
    /\ \A k \in 1..(Len(calls) - 1) :
          Rank(calls[k].command) <= Rank(calls[k + 1].command)
    /\ \A k \in 1..Len(calls) :
          /\ calls[k].command = "FINALIZE" =>
                CoveredUpTo(Appends(SubSeq(calls, 1, k - 1))) = disk
          /\ calls[k].command \in {"STATUS", "TWEET"} =>
                \E j \in 1..(k - 1) : calls[j].command = "FINALIZE"
          /\ calls[k].command = "TWEET" => k = Len(calls)
    /\ IsImageUpload(filePathOrUrl, mimeType) =>
          /\ Count(calls, "STATUS") = 0
          /\ Count(calls, "APPEND") <= 1
          /\ Count(calls, "TWEET") = 1 =>
                [k \in 1..Len(calls) |-> calls[k].command]
                    = <<"INIT", "APPEND", "FINALIZE", "TWEET">>

\* a video of several chunks was appended, finalized, polled more than once
\* and published
C1_Witness ==
    /\ pc = "done"
    /\ result.kind = "returned"
    /\ ~isImageUpload
    /\ Count(calls, "APPEND") >= 2
    /\ Count(calls, "STATUS") >= 2
    /\ Count(calls, "TWEET") = 1

----------------------------------------------------------------------------
(* C2 *)

\* C2: an attempt that has issued FINALIZE has issued exactly
\* ceil(fileSize / chunkSize) APPENDs for a video (5 MiB chunks) and exactly
\* one APPEND for an image, whatever the size.
C2_AppendCount ==
    Count(calls, "FINALIZE") > 0 =>
        Count(calls, "APPEND") =
            IF isImageUpload THEN 1 ELSE CeilDiv(disk, 5 * 1024 * 1024)

\* a video with a short last chunk has been finalized
C2_Witness ==
    /\ pc = "FINALIZE"
    /\ ~isImageUpload
    /\ disk > chunkSize
    /\ disk % chunkSize # 0

----------------------------------------------------------------------------
(* C3 *)

\* C3: the k-th APPEND of an attempt carries segment_index k-1, and while
\* uploadVideo runs its segmentIndex equals the number of APPENDs completed
\* (the APPENDs issued, less the one in flight).
C3_SegmentIndices ==
    /\ \A k \in 1..Len(Appends(calls)) : Appends(calls)[k].segment_index = k - 1
    /\ (~isImageUpload /\ pc \in {"APPEND", "FINALIZE"}) =>
          segmentIndex = Count(calls, "APPEND") - (IF pc = "APPEND" THEN 1 ELSE 0)

\* the third chunk of a video is in flight
C3_Witness ==
    /\ pc = "APPEND"
    /\ ~isImageUpload
    /\ segmentIndex = 2
    /\ Len(Appends(calls)) = 3

----------------------------------------------------------------------------
(* C4 *)

\* C4: one run of waitForMediaProcessing issues at most 10 STATUS requests,
\* and when the 10th poll has not reported 'succeeded' either the run ends
\* with an error: no further request, the error reaches uploadToTwitter.
C4_PollBound ==
    /\ [](Count(calls, "STATUS") <= 10)
    /\ [][(pc = "pollSleep" /\ Count(calls, "STATUS") = 10) =>
            /\ calls' = calls
            /\ Len(thrown') = Len(thrown) + 1
            /\ thrown'[Len(thrown')] = MaxAttemptsError
            /\ pc' = "done"
            /\ result' = MaxAttemptsError]_vars

\* the run gave up after ten polls
C4_Witness ==
    /\ pc = "done"
    /\ result = MaxAttemptsError
    /\ Count(calls, "STATUS") = 10

----------------------------------------------------------------------------
(* C5 *)

\* C5 as stated: no STATUS request is issued once more than 5 minutes have
\* elapsed since polling started (while a STATUS request is in flight,
\* elapsed is the time at which it was issued).
C5_NoStatusPastFiveMinutes ==
    pc = "STATUS" => elapsed <= 5 * 60 * 1000

\* C5 as amended: the elapsed time is checked only after a poll that did not
\* report 'succeeded'.  When more than 5 minutes have elapsed at that check
\* the run neither sleeps nor polls again and ends with the time-limit
\* error, which uploadToTwitter raises; so a sleep starts no later than 5
\* minutes after the start, and a STATUS request is issued no later than one
\* poll interval (at most 30 s) past the 5 minutes.
C5_TimeLimitCheckedAfterPoll ==
    /\ pc = "pollSleep" => elapsed <= 5 * 60 * 1000
    /\ pc = "STATUS" => elapsed <= 5 * 60 * 1000 + 30 * 1000
    /\ (thrown # <<>> /\ thrown[Len(thrown)] = TimeLimitError) =>
          /\ pc = "done"
          /\ result = TimeLimitError
          /\ calls[Len(calls)].command = "STATUS"

\* the time limit ended a run that had made fewer than 10 polls
C5_Witness ==
    /\ result = TimeLimitError
    /\ Count(calls, "STATUS") < 10
    /\ Count(calls, "STATUS") >= 2

----------------------------------------------------------------------------
(* C6 *)

\* C6: when a STATUS poll has reported 'succeeded', polling has ended at
\* once: the run is not sleeping, and the call issued right after that
\* STATUS request is the post creation, the last call of the attempt.
C6_SucceededEndsPolling ==
    mediaStatus.state = "succeeded" =>
        /\ pc \in {"TWEET", "done"}
        /\ Len(calls) >= 2
        /\ calls[Len(calls)].command = "TWEET"
        /\ calls[Len(calls) - 1].command = "STATUS"
        /\ Count(calls, "STATUS") = attempts + 1

\* the third poll reported 'succeeded' and the post creation is in flight
C6_Witness ==
    /\ pc = "TWEET"
    /\ mediaStatus.state = "succeeded"
    /\ attempts = 2
    /\ Count(calls, "STATUS") = 3

----------------------------------------------------------------------------
(* C7 *)

\* C7 as stated: after a STATUS poll has reported 'failed', no further STATUS
\* request is issued: the run ends with an error.
C7_FailedStopsPolling ==
    [][mediaStatus.state = "failed" =>
          /\ pc' # "STATUS"
          /\ Len(thrown') = Len(thrown) + 1]_vars

----------------------------------------------------------------------------
(* C8 *)

AllRateLimited(errors) ==
    \A k \in 1..Len(errors) : errors[k].axios /\ errors[k].status = 429

\* C8: one call of uploadToTwitter enters performUpload at most 3 times; it
\* gives up (raises its max-retries error) only after 3 attempts that all
\* ended in a 429, and once 3 attempts have ended in a 429 and the call is
\* over, its outcome is that error, never a returned value.
C8_AtMostThreeAttempts ==
    /\ performUploadCalls <= 3
    /\ Len(thrown) <= performUploadCalls
    /\ result = MaxRetriesError =>
          /\ performUploadCalls = 3
          /\ Len(thrown) = 3
          /\ AllRateLimited(thrown)
    /\ (pc = "done" /\ Len(thrown) = 3 /\ AllRateLimited(thrown)) =>
          result = MaxRetriesError

\* three attempts were rate limited and the call gave up
C8_Witness ==
    /\ pc = "done"
    /\ result = MaxRetriesError
    /\ performUploadCalls = 3

----------------------------------------------------------------------------
(* C9 *)

\* C9 as stated: the give-up error is raised on the 4th rate-limit encounter.
C9_GiveUpOnFourthRateLimit ==
    result = MaxRetriesError => rateLimitHits = 4

\* C9 as amended: the give-up error is raised on the 3rd rate-limit
\* encounter; each of the first two encounters is followed by a new attempt
\* (once its delay is over), the third is not.
C9_GiveUpOnThirdRateLimit ==
    /\ rateLimitHits <= 3
    /\ result = MaxRetriesError => rateLimitHits = 3
    /\ rateLimitHits = 3 => (pc \in {"backoff", "done"} /\ performUploadCalls = 3)
    /\ (rateLimitHits \in {1, 2} /\ pc # "backoff") =>
          performUploadCalls = rateLimitHits + 1
    /\ (rateLimitHits \in {1, 2} /\ pc = "backoff") =>
          performUploadCalls = rateLimitHits

\* the call gave up after its third rate-limit error
C9_Witness ==
    /\ pc = "done"
    /\ result = MaxRetriesError
    /\ rateLimitHits = 3
    /\ Len(calls) >= 2

----------------------------------------------------------------------------
(* C10 *)

\* C10: when performUpload throws an error that is not an HTTP 429 (another
\* HTTP status, a network error, file not found, a processing timeout, a
\* missing credential), uploadToTwitter raises that same error in the same
\* step: it does not wait (the call is over, pc is "done") and no outbound
\* call or new session follows the error.
C10_OtherErrorsPropagate ==
    [][(Len(thrown') = Len(thrown) + 1
          /\ ~(thrown'[Len(thrown')].axios /\ thrown'[Len(thrown')].status = 429)) =>
            /\ pc' = "done"
            /\ result' = thrown'[Len(thrown')]
            /\ Len(calls') <= Len(calls)
            /\ initsIssued' = initsIssued
            /\ rateLimitHits' = rateLimitHits]_vars

\* a second attempt, after a rate-limit error, failed half way with an HTTP
\* 500, which is the outcome of the call
C10_Witness ==
    /\ pc = "done"
    /\ result = AxiosError(500)
    /\ rateLimitHits = 1
    /\ performUploadCalls = 2
    /\ Len(calls) >= 3

----------------------------------------------------------------------------
\* C11: a retry after a 429 restarts the whole upload session.  The step that
\* ends the backoff delay, unless it gives up, sends a new INIT and nothing
\* else (the log of the new attempt holds that INIT alone); and in every
\* attempt that follows a 429 the calls after INIT carry the media id that
\* this attempt's INIT returned (ids are numbered by INIT, so it is the id of
\* no earlier session), and the first APPEND is that of segment 0, from
\* byte 0: no chunk is sent again under the old session's id.
C11_RetryRestartsSession ==
    /\ [][pc = "backoff" /\ pc' # "done" =>
            /\ pc' = "INIT"
            /\ calls' = <<InitCall(disk)>>
            /\ initsIssued' = initsIssued + 1]_vars
    /\ [](rateLimitHits > 0 /\ pc \in {"APPEND", "FINALIZE", "STATUS", "pollSleep", "TWEET"} =>
            /\ calls[1].command = "INIT"
            /\ mediaId = initsIssued
            /\ \A k \in 2..Len(calls) : calls[k].media_id = initsIssued
            /\ Appends(calls) # <<>> =>
                 /\ calls[2] = Appends(calls)[1]
                 /\ calls[2].segment_index = 0
                 /\ calls[2].from = 0)

\* the second attempt, after a 429, is sending its second chunk under the
\* id of its own INIT
C11_Witness ==
    /\ retryCount = 1
    /\ rateLimitHits = 1
    /\ pc = "APPEND"
    /\ Len(calls) = 3
    /\ calls[3].segment_index = 1
    /\ calls[3].media_id = 2

----------------------------------------------------------------------------
\* C12: while uploadToTwitter waits after a 429, the wait is the response's
\* retry-after hint (n seconds, so n * 1000 ms) when the response carries
\* one, and a computed backoff time only when it carries none.
C12_RetryAfterHonoured ==
    pc = "backoff" =>
        IF retryAfter # NoSecs
        THEN waitTime = retryAfter * 1000
        ELSE \E random \in Randoms : waitTime = calculateBackoffTime(retryCount, random)

----------------------------------------------------------------------------
\* C13: for every retry count r >= 0 and every value of the jitter, the
\* time calculateBackoffTime(r) returns lies within
\* [base, base * 2^min(r, 5) * 1.5], with base = 1000 ms.
C13_BackoffWithinBounds ==
    pc = "calculated" =>
        /\ baseDelay <= waitTime
        /\ 2 * waitTime <= 3 * baseDelay * 2 ^ Min(retryCount, 5)

\* a retry count past the cap of 5, with a jitter that is not zero
C13_Witness ==
    /\ pc = "calculated"
    /\ retryCount > 5
    /\ waitTime > baseDelay * 2 ^ 5

----------------------------------------------------------------------------
\* C14: when the controller has answered a request whose uploaded file it
\* staged, it has attempted to delete the staged file, whether the upload
\* succeeded or the service failed.
C14_TempFileRemovedOnEveryExit ==
    (pc = "responded" /\ uploadPath # NoPath) => unlinkAttempts >= 1

----------------------------------------------------------------------------
\* C15: a request whose uploaded file has a MIME type that is not allowed is
\* answered with a 400-class status, and nothing is staged and no outbound
\* call is made for it.
C15_UnsupportedTypeRejected ==
    (request.file # NoUpload /\ request.file.mimetype \notin allowedMimeTypes) =>
        /\ pc \in {"request", "responded"}
        /\ ~tempFile
        /\ uploadPath = NoPath
        /\ calls = <<>>
        /\ pc = "responded" => response.status \in 400..499

----------------------------------------------------------------------------
\* C16: a request with neither a media URL nor an uploaded file is answered
\* with a 400-class status, and the service's uploadToTwitter is never
\* called for it.
C16_NoSourceRejected ==
    (request.videoUrl = NoPath /\ request.file = NoUpload) =>
        /\ pc \in {"request", "responded"}
        /\ performUploadCalls = 0
        /\ result = Pending
        /\ calls = <<>>
        /\ pc = "responded" => response.status \in 400..499

\* a request without a source has been answered
C16_Witness ==
    /\ request.videoUrl = NoPath
    /\ request.file = NoUpload
    /\ pc = "responded"
    /\ response = HttpException(NoSourceError.message, BAD_REQUEST)

----------------------------------------------------------------------------
\* C17: once uploadToTwitter has begun with a remote URL, the media has been
\* downloaded to a local file (before any INIT) and the upload reads that
\* file, so it does not fail for want of a local file; with a local path
\* nothing is downloaded.
C17_RemoteUrlIsDownloaded ==
    /\ (filePathOrUrl.remote /\ pc \notin {"start", "request"}
            /\ validateCredential(consumerCredentials)) =>
            /\ downloads >= 1
            /\ result # FileNotFoundError
    /\ ~filePathOrUrl.remote => downloads = 0

----------------------------------------------------------------------------
\* C18: when a required credential is missing (the consumer key or secret,
\* or the access token or its secret), no request is ever sent: no INIT,
\* APPEND, FINALIZE, STATUS or post-creation call is issued and nothing is
\* returned; and a call that gets as far as signing a request (the service
\* could not even be constructed, or the file to upload exists) ends with
\* the missing-credential error.
C18_NoRequestWithoutCredentials ==
    (~consumerCredentials \/ ~accessCredentials) =>
        /\ calls = <<>>
        /\ initsIssued = 0
        /\ pc \in {"start", "done"}
        /\ result.kind # "returned"
        /\ (pc = "done" /\ (~consumerCredentials \/ disk # NoFile)) =>
               result = MissingCredentialError

\* the access token is missing and the file exists: the call has ended with
\* the missing-credential error, before INIT
C18_Witness ==
    /\ consumerCredentials
    /\ ~accessCredentials
    /\ disk # NoFile
    /\ pc = "done"
    /\ result = MissingCredentialError
    /\ performUploadCalls = 1

----------------------------------------------------------------------------
\* C19: if every pending request and every sleep ends, every call of
\* uploadToTwitter terminates, with exactly one of two outcomes: it returns
\* the response of a post-creation call that succeeded (the last call of an
\* attempt that did not throw), or it throws an error.  There is no outcome
\* before it terminates, and none that reports the media without a post.
C19_TerminatesWithPostOrError ==
    /\ <>(pc = "done")
    /\ [](pc # "done" => result = Pending)
    /\ [](pc = "done" =>
            /\ result.kind \in {"returned", "error"}
            /\ result.kind = "returned" =>
                 /\ calls # <<>>
                 /\ calls[Len(calls)] = TweetCall(result.id)
                 /\ Count(calls, "TWEET") = 1
                 /\ Len(thrown) < performUploadCalls)
    /\ [][pc = "done" => pc' = "done" /\ result' = result]_vars

\* a call that was rate-limited twice ends with the post its third attempt
\* created, after polling
C19_Witness ==
    /\ pc = "done"
    /\ result.kind = "returned"
    /\ performUploadCalls = 3
    /\ Count(calls, "STATUS") >= 2

----------------------------------------------------------------------------
\* C20: the payload of every post-creation request has a text, a media_ids
\* array that holds exactly one id, the id this attempt's INIT returned, and a
\* reply field, with in_reply_to_tweet_id, exactly when the request supplied
\* a reply-target id (an empty string is not an id).
C20_TweetPayload ==
    \A k \in 1..Len(calls) :
        calls[k].command = "TWEET" =>
            LET payload == calls[k].payload
                supplied == request.replyToTweetId \notin {None, ""}
            IN /\ "text" \in DOMAIN payload
               /\ payload.text = IF request.tweetText = None
                                 THEN defaultTweetText ELSE request.tweetText
               /\ Len(payload.media.media_ids) = 1
               /\ payload.media.media_ids[1] = initsIssued
               /\ ("reply" \in DOMAIN payload) <=> supplied
               /\ supplied =>
                    payload.reply = [in_reply_to_tweet_id |-> request.replyToTweetId]

\* a post that replies to tweet 1234 is being created
C20_Witness ==
    /\ pc = "TWEET"
    /\ request.replyToTweetId = "1234"
    /\ request.tweetText = "Hello"
    /\ calls[Len(calls)].payload.reply.in_reply_to_tweet_id = "1234"

----------------------------------------------------------------------------
\* C21: within an attempt every call after INIT (APPEND, FINALIZE, STATUS,
\* post creation) carries the media id that this attempt's INIT returned,
\* for images as for videos, and the post attaches that id and no other.
C21_SessionIdCarried ==
    /\ \A k \in 1..Len(calls) :
          /\ (calls[k].command = "INIT") <=> (k = 1)
          /\ k > 1 => calls[k].media_id = initsIssued
          /\ calls[k].command = "TWEET" =>
                calls[k].payload.media.media_ids = <<initsIssued>>
    /\ pc \in {"APPEND", "FINALIZE", "STATUS", "pollSleep", "TWEET"} =>
          mediaId = initsIssued
    /\ result.kind = "returned" => result.id = initsIssued

\* the post of a video is being created in the second session
C21_Witness ==
    /\ pc = "TWEET"
    /\ ~isImageUpload
    /\ initsIssued = 2
    /\ Count(calls, "STATUS") >= 1
    /\ calls[Len(calls)].payload.media.media_ids = <<2>>

----------------------------------------------------------------------------
\* the bytes the chunks carry, added up
RECURSIVE SumOfSizes(_)
SumOfSizes(chunks) ==
    IF chunks = <<>> THEN 0
    ELSE (chunks[1].to - chunks[1].from) + SumOfSizes(Tail(chunks))

\* C22: the chunks a video upload sends partition the file.  With C the
\* chunk size and S the total_bytes declared in INIT, the chunk with segment
\* index k covers the bytes [k*C, min((k+1)*C, S)); every chunk has between
\* 1 and C bytes and every chunk that is not the last of the file has
\* exactly C; and once FINALIZE is sent the sizes add up to S.
C22_ChunksPartitionFile ==
    (~isImageUpload /\ calls # <<>>) =>
        LET chunks == Appends(calls)
            S == calls[1].total_bytes
        IN /\ \A k \in 1..Len(chunks) :
                LET seg == chunks[k].segment_index
                    size == chunks[k].to - chunks[k].from
                IN /\ seg = k - 1
                   /\ chunks[k].from = seg * chunkSize
                   /\ chunks[k].to = Min((seg + 1) * chunkSize, S)
                   /\ size \in 1..chunkSize
                   /\ (seg + 1) * chunkSize < S => size = chunkSize
           /\ Count(calls, "FINALIZE") > 0 => SumOfSizes(chunks) = S

\* three chunks, the last of one byte, have been sent and FINALIZE follows
C22_Witness ==
    /\ ~isImageUpload
    /\ pc = "FINALIZE"
    /\ Len(Appends(calls)) = 3
    /\ calls[1].total_bytes = 2 * chunkSize + 1
    /\ calls[4].to - calls[4].from = 1

----------------------------------------------------------------------------
\* C23: the answer of the controller is the outcome of the upload, whatever
\* becomes of the cleanup of the staged file: when uploadToTwitter returned
\* the post, the request answers with that post, and when it threw, the
\* request answers with that error.
C23_CleanupFailureKeepsOutcome ==
    pc = "responded" =>
        /\ result.kind = "returned" =>
              response = [status |-> CREATED, body |-> result]
        /\ result.kind = "error" =>
              /\ response.body.kind = "error"
              /\ response.body.message = result.message

----------------------------------------------------------------------------
\* C24: two requests that run at the same time never have the same staging
\* path, and so the file a request has staged and not yet unlinked is on
\* disk and holds that request's bytes.
C24_StagingPathsDistinct ==
    /\ \A g, h \in Handlers :
          (/\ g # h
           /\ handlers[g].pc \in {"writeFile", "uploadToTwitter", "unlink"}
           /\ handlers[h].pc \in {"writeFile", "uploadToTwitter", "unlink"})
          => handlers[g].uploadPath # handlers[h].uploadPath
    /\ \A h \in Handlers :
          handlers[h].pc \in {"uploadToTwitter", "unlink"} =>
              <<handlers[h].uploadPath, h>> \in files

----------------------------------------------------------------------------
\* C25: every outbound call (INIT, APPEND, FINALIZE, STATUS, post creation)
\* is sent through the Transport, the axios instance that carries the
\* rate-limit interceptor, so that the request whose 429 uploadToTwitter
\* catches is one the Transport has already retried.
C25_CallsGoThroughTransport ==
    /\ \A k \in 1..Len(calls) : calls[k].via = "axiosInstance"
    /\ pc = "backoff" => calls[Len(calls)].via = "axiosInstance"

----------------------------------------------------------------------------
\* C26: the wait between two consecutive STATUS polls is
\* min(check_after_secs, 30) seconds when the last response supplied a
\* check_after_secs value and 2 seconds when it supplied none, and it never
\* exceeds 30 seconds.
C26_PollWait ==
    [][(pc = "pollSleep" /\ pc' = "STATUS") =>
          /\ elapsed' - elapsed =
                1000 * (IF mediaStatus.check_after_secs = NoSecs
                        THEN 2 ELSE Min(mediaStatus.check_after_secs, 30))
          /\ elapsed' - elapsed <= 30 * 1000]_vars

\* C26, amended: the wait is min(check_after_secs, 30) seconds when the last
\* response supplied a check_after_secs other than 0, and 2 seconds when it
\* supplied none or 0; it never exceeds 30 seconds.
C26_PollWaitNonZeroHint ==
    [][(pc = "pollSleep" /\ pc' = "STATUS") =>
          /\ elapsed' - elapsed =
                1000 * (IF mediaStatus.check_after_secs \in {NoSecs, 0}
                        THEN 2 ELSE Min(mediaStatus.check_after_secs, 30))
          /\ elapsed' - elapsed <= 30 * 1000]_vars

\* the second poll goes out 30 s after a response that suggested 60 s
C26_Witness ==
    /\ pc = "STATUS"
    /\ attempts = 1
    /\ elapsed = 30 * 1000

----------------------------------------------------------------------------
\* C27: for a video the post-creation request is sent only by the step that
\* handles a STATUS response of the same attempt whose state is 'succeeded';
\* a response with another state, or without processing_info, never leads
\* to it.  A video upload that ends without such a response ends in an
\* error, and the error of the attempt bound comes after MAX_ATTEMPTS polls.
C27_PublishOnlyAfterSucceeded ==
    /\ [][(~isImageUpload' /\ pc' = "TWEET") =>
            /\ pc = "STATUS"
            /\ mediaStatus'.state = "succeeded"
            /\ performUploadCalls' = performUploadCalls
            /\ calls' = Append(calls, TweetCall(mediaId))]_vars
    /\ []((~isImageUpload /\ pc = "TWEET") =>
            /\ mediaStatus.state = "succeeded"
            /\ Count(calls, "STATUS") >= 1
            /\ Count(calls, "TWEET") = 1)
    /\ []((~isImageUpload /\ pc = "done" /\ Count(calls, "TWEET") = 0) =>
            result.kind = "error")
    /\ []((~isImageUpload /\ result = MaxAttemptsError) =>
            /\ Count(calls, "STATUS") = 10
            /\ Count(calls, "TWEET") = 0)

\* ten polls of a video never reported 'succeeded': the call has ended
\* with the error of the attempt bound, without a post
C27_Witness ==
    /\ ~isImageUpload
    /\ pc = "done"
    /\ result = MaxAttemptsError
    /\ Count(calls, "STATUS") = 10
    /\ Count(calls, "TWEET") = 0

====
